---- MODULE Spec2Model ----
(***************************************************************************)
(* Model of app_sales.py: the cached load_data() derivation pipeline and   *)
(* the module-level script that consumes it (load, filter, export).        *)
(*                                                                         *)
(* A table (pandas DataFrame) is a sequence of records; a column is a      *)
(* record field.  Column names of the source and their field names here:   *)
(*   주문번호 -> orderNo        상품코드 -> prodCode                         *)
(*   주문자연락처 -> contact     주문일 -> orderDate (day number)             *)
(*   결제금액(상품별) -> paid    공급가 -> supply                            *)
(*   _source_file -> source_file   GP -> GP   마진율 -> margin              *)
(*   총주문횟수 -> totalOrders   고객유형 -> custType                        *)
(*   쿠폰 사용금액(통합) -> coupon   포인트 사용금액(통합) -> point            *)
(*   총할인액 -> totalDiscount   순매출 -> netRevenue                        *)
(*   할인여부 -> discounted (added by the script to its filtered copy)      *)
(*   고객세그먼트 -> segment     입금일 -> payDate                            *)
(*   배송준비 처리일 -> shipDate  상품명 -> name   주문수량 -> qty             *)
(*   주문월 -> orderMonth   첫구매월 -> firstMonth   코호트_경과 -> elapsed   *)
(*   수명일수 -> lifespan   총구매건수 -> lineCount   누적매출 -> cumRevenue  *)
(*   개별할인율 -> discountRate   배송리드타임 -> leadTime                    *)
(*   이전구매일 -> prevDate   구매간격 -> interval                           *)
(*   미구매기간 -> idle   이탈위험도 -> churn                                 *)
(*   최초주문번호 -> firstOrderNo   최초구매상품 -> firstProduct              *)
(*   회전율지표 -> turnover   단가 -> unitPrice   가격대 -> priceBand         *)
(* A date is a day number >= 0; a date cell of a file that does not parse   *)
(* is BadDate.  A table whose files lack a column has rows without that     *)
(* field.  The contact column is in all files of an input or in none.       *)
(* An empty cell of the contact, order number or quantity column is NaN.    *)
(* The product name and address cells hold text that the tag extraction of *)
(* lines 77-89 accepts; extract_region is modelled on its own below.       *)
(* A float ratio is kept exactly, as a fraction [num, den] with den > 0.   *)
(***************************************************************************)
EXTENDS Integers, Sequences, FiniteSets, TLC

VARIABLES
    dirs,       \* the two data directories: "rel" (./data/) and "abs" (<script dir>/data)
    cache,      \* the @st.cache_data store of load_data: [valid, value]
    lock,       \* holder of the cache's compute lock, or "none"
    changes,    \* number of file-system changes made so far (bounded)
    pc,         \* per session: position of the script run
    data_dir,   \* per session: load_data's local data_dir
    csv_files,  \* per session: load_data's local csv_files (glob result)
    df_list,    \* per session: load_data's local df_list
    df,         \* per session: load_data's local df
    rfm,        \* per session: load_data's local rfm table
    df_raw,     \* per session: module-level df_raw
    df_view,    \* per session: module-level df (the filtered copy)
    csv         \* per session: the exported table (to_csv input)

vars == <<dirs, cache, lock, changes, pc, data_dir, csv_files, df_list, df,
          rfm, df_raw, df_view, csv>>

locals == <<data_dir, csv_files, df_list, df, rfm>>

----------------------------------------------------------------------------
(* Bounds and value domains *)

\* total number of rows over the input files of one enumerated input
MaxRows == 3
\* number of file-system changes explored in Spec
MaxChanges == 1

Sessions == {"s1", "s2"}
Dirs == {"rel", "abs"}
FileNames == {1, 2}

\* pandas NaN / missing cell in a numeric column
NaN == -999
\* pandas NaT, the null date
NaT == -998
\* a date cell whose text is not a date
BadDate == -1
\* days of a calendar month of the model's calendar
MonthLen == 2

----------------------------------------------------------------------------
(* Generic sequence helpers *)

RECURSIVE Flatten(_)
Flatten(list) ==
    IF list = <<>> THEN <<>> ELSE Head(list) \o Flatten(Tail(list))

RECURSIVE PickFrom(_, _, _)
PickFrom(t, S, i) ==
    IF i > Len(t) THEN <<>>
    ELSE (IF i \in S THEN <<t[i]>> ELSE <<>>) \o PickFrom(t, S, i + 1)

\* the rows of t at the positions S, in table order (boolean-mask indexing)
Pick(t, S) == PickFrom(t, S, 1)

RECURSIVE SumOver(_, _)
SumOver(t, S) ==
    IF S = {} THEN 0
    ELSE LET i == CHOOSE x \in S : TRUE IN t[i].paid + SumOver(t, S \ {i})

SetMax(S) == CHOOSE x \in S : \A y \in S : y <= x
SetMin(S) == CHOOSE x \in S : \A y \in S : x <= y

RECURSIVE SortedSeq(_)
SortedSeq(S) ==
    IF S = {} THEN <<>> ELSE <<SetMin(S)>> \o SortedSeq(S \ {SetMin(S)})

Perms(S) ==
    {p \in [1..Cardinality(S) -> S] :
        \A i, j \in 1..Cardinality(S) : i # j => p[i] # p[j]}

Range(t) == {t[i] : i \in 1..Len(t)}

----------------------------------------------------------------------------
(* Input rows and files *)

\* a line paid and made ready for shipment on the day of the order, one
\* piece of the product named after its code
Row(o, p, c, d, a, s) ==
    [paid |-> a, orderNo |-> o, prodCode |-> p, contact |-> c,
     orderDate |-> d, supply |-> s, coupon |-> 0, point |-> 0,
     payDate |-> d, shipDate |-> d, name |-> p, qty |-> 1]

WithCoupon(r, v) == [r EXCEPT !.coupon = v]

\* the columns a file may lack
OptionalColumns == {"contact", "coupon", "point", "shipDate"}

\* the rows of a file written without the columns in missing
Without(t, missing) ==
    [i \in 1..Len(t) |-> [c \in DOMAIN t[i] \ missing |-> t[i][c]]]

\* col in df.columns
HasColumn(t, col) == t # <<>> /\ col \in DOMAIN t[1]

\* a CSV file on disk: its byte encoding and the rows it holds
File(enc, rows) == [enc |-> enc, rows |-> rows]

NoFiles == [d \in Dirs |-> <<>>]

----------------------------------------------------------------------------
(* load_data: ingestion *)

\* glob.glob(os.path.join(data_dir, "*.csv")): the names found, in any order
glob(dir) == Perms(DOMAIN dir)

\* pd.read_csv(file, encoding=enc) succeeds iff the bytes decode under enc
CanRead(file, enc) == file.enc = enc

\* temp_df['_source_file'] = os.path.basename(file)
TagSource(rows, name) ==
    [i \in 1..Len(rows) |-> rows[i] @@ [source_file |-> name]]

\* the body of the for loop for one file that can be read by one of the
\* two attempts: the list with the file's tagged rows appended
read_csv_append(list, file, name) == Append(list, TagSource(file.rows, name))

\* the try/except of the loop: cp949 first, utf-8 in the handler; a failure
\* of the handler's read is not caught
ReadRaises(dir, name) ==
    IF name \in DOMAIN dir
    THEN ~CanRead(dir[name], "cp949") /\ ~CanRead(dir[name], "utf8")
    ELSE TRUE

\* pd.concat(df_list, ignore_index=True): the rows in list order over the
\* union of the columns, a cell of a column its file lacks being NaN
concat(list) ==
    LET rows == Flatten(list)
        cols == UNION {DOMAIN rows[i] : i \in 1..Len(rows)}
    IN  [i \in 1..Len(rows) |->
            [c \in cols |-> IF c \in DOMAIN rows[i] THEN rows[i][c] ELSE NaN]]

Key(r) == <<r.orderNo, r.prodCode>>

\* keep='last': a row stays iff no later row has its key
KeepLast(t) ==
    {i \in 1..Len(t) : \A j \in (i + 1)..Len(t) : Key(t[j]) # Key(t[i])}

\* variant: keep='first'
drop_duplicates_first(t) ==
    Pick(t, {i \in 1..Len(t) : \A j \in 1..(i - 1) : Key(t[j]) # Key(t[i])})

\* variant: subset=['주문번호'] alone
drop_duplicates_by_order(t) ==
    Pick(t, {i \in 1..Len(t) :
                \A j \in (i + 1)..Len(t) : t[j].orderNo # t[i].orderNo})

\* df.drop_duplicates(subset=['주문번호', '상품코드'], keep='last')
drop_duplicates(t) == Pick(t, KeepLast(t))

----------------------------------------------------------------------------
(* load_data: date parsing *)

DateColumns == {"orderDate", "payDate", "shipDate"}

\* pd.to_datetime(v, errors='coerce') of one cell
to_datetime(v) == IF v >= 0 THEN v ELSE NaT

\* df[col] raises KeyError for a column the table does not have
dates_raise(t) == \E col \in DateColumns : ~HasColumn(t, col)

\* for col in date_cols: df[col] = pd.to_datetime(df[col], errors='coerce')
parse_dates(t) ==
    [i \in 1..Len(t) |->
        [t[i] EXCEPT !.orderDate = to_datetime(@), !.payDate = to_datetime(@),
                     !.shipDate = to_datetime(@)]]

\* Series.dt.to_period('M') of one date, as the month's ordinal
to_period(d) == IF d = NaT THEN NaT ELSE d \div MonthLen

----------------------------------------------------------------------------
(* load_data: cleansing and financial derivation *)

fill0(v) == IF v = NaN THEN 0 ELSE v

\* df[col] = df[col].fillna(0) for the paid amount and the supply cost
fillna(t) ==
    [i \in 1..Len(t) |->
        [t[i] EXCEPT !.paid = fill0(@), !.supply = fill0(@)]]

Ratio(n, d) == [num |-> n, den |-> d]

\* variant: a loss clamped to zero
GPOf_clamped(r) == IF r.paid - r.supply < 0 THEN 0 ELSE r.paid - r.supply

\* df['GP'] = paid - supply
GPOf(r) == r.paid - r.supply

\* np.where(paid > 0, GP / paid, 0)
MarginOf(r) == IF r.paid > 0 THEN Ratio(GPOf(r), r.paid) ELSE Ratio(0, 1)

derive_gp(t) ==
    [i \in 1..Len(t) |-> t[i] @@ [GP |-> GPOf(t[i]), margin |-> MarginOf(t[i])]]

----------------------------------------------------------------------------
(* load_data: customer aggregation *)

\* the rows of the group of customer c: groupby leaves out null keys
RowsOf(t, c) == IF c = NaN THEN {} ELSE {i \in 1..Len(t) : t[i].contact = c}

\* the cell a left merge on the contact gives a row: null for a null key
merged(c, v) == IF c = NaN THEN NaN ELSE v

\* variant: the order lines counted (count instead of nunique)
count_lines(t, c) == Cardinality(RowsOf(t, c))

\* groupby('주문자연락처')['주문번호'].nunique()
nunique_orders(t, c) ==
    Cardinality({t[i].orderNo : i \in RowsOf(t, c)} \ {NaN})

customer_type(n) == IF n > 1 THEN "repeat" ELSE "new"

\* variant: without the contact column every line counted as a new customer
customer_orders_as_new(t) ==
    IF HasColumn(t, "contact")
    THEN [i \in 1..Len(t) |->
            LET n == merged(t[i].contact, nunique_orders(t, t[i].contact))
            IN  t[i] @@ [totalOrders |-> n, custType |-> customer_type(n)]]
    ELSE [i \in 1..Len(t) |-> t[i] @@ [custType |-> "new"]]

\* merge of customer_orders back on the rows, and 고객유형; without the
\* contact column 고객유형 = "분석불가"
customer_orders(t) ==
    IF HasColumn(t, "contact")
    THEN [i \in 1..Len(t) |->
            LET n == merged(t[i].contact, nunique_orders(t, t[i].contact))
            IN  t[i] @@ [totalOrders |-> n, custType |-> customer_type(n)]]
    ELSE [i \in 1..Len(t) |-> t[i] @@ [custType |-> "not-computable"]]

----------------------------------------------------------------------------
(* load_data: promotion columns *)

\* pd.to_numeric(df[col], errors='coerce').fillna(0) on the coupon and point
\* columns, then 총할인액 = coupon + point and 순매출 = paid
discount_cell(r, col) == IF col \in DOMAIN r THEN fill0(r[col]) ELSE 0

\* variant: the discounts taken off the net revenue
discount_columns_net(t) ==
    [i \in 1..Len(t) |->
        [coupon |-> discount_cell(t[i], "coupon"),
         point |-> discount_cell(t[i], "point"),
         totalDiscount |-> discount_cell(t[i], "coupon")
                            + discount_cell(t[i], "point"),
         netRevenue |-> t[i].paid - discount_cell(t[i], "coupon")
                            - discount_cell(t[i], "point")] @@ t[i]]

discount_columns(t) ==
    [i \in 1..Len(t) |->
        [coupon |-> discount_cell(t[i], "coupon"),
         point |-> discount_cell(t[i], "point"),
         totalDiscount |-> discount_cell(t[i], "coupon")
                            + discount_cell(t[i], "point"),
         netRevenue |-> t[i].paid] @@ t[i]]

----------------------------------------------------------------------------
(* load_data: RFM scoring *)

Contacts(t) == SortedSeq({t[i].contact : i \in 1..Len(t)} \ {NaN})

\* the non-null order dates of the rows S
ValidDates(t, S) == {t[i].orderDate : i \in S} \ {NaT}

\* Series.max() / Series.min() of the order dates of the rows S: nulls are
\* skipped, and the result is null when there is no other value
max_date(t, S) == IF ValidDates(t, S) = {} THEN NaT ELSE SetMax(ValidDates(t, S))
min_date(t, S) == IF ValidDates(t, S) = {} THEN NaT ELSE SetMin(ValidDates(t, S))

\* (a - b).days
days_between(a, b) == IF a = NaT \/ b = NaT THEN NaN ELSE a - b

\* variant: the day after the latest order date as the reference
ref_date_next_day(t) ==
    IF max_date(t, 1..Len(t)) = NaT THEN NaT ELSE max_date(t, 1..Len(t)) + 1

\* df['주문일'].max()
ref_date(t) == max_date(t, 1..Len(t))

\* (ref_date - x.max()).days for one customer
Recency(t, c) == days_between(ref_date(t), max_date(t, RowsOf(t, c)))

\* '결제금액(상품별)': 'sum' for one customer
Monetary(t, c) == SumOver(t, RowsOf(t, c))

\* the aggregated table, one row per customer, in group-key order
rfm_agg(t) ==
    LET cs == Contacts(t) IN
    [k \in 1..Len(cs) |->
        [contact |-> cs[k],
         Recency |-> Recency(t, cs[k]),
         Monetary |-> Monetary(t, cs[k]),
         Frequency |-> nunique_orders(t, cs[k])]]

\* variant: method='min', tied values share the lowest rank
rank_min(vals, k) ==
    1 + Cardinality({j \in 1..Len(vals) : vals[j] < vals[k]})

\* Series.rank(method='first'): ascending, ties in order of appearance
rank_first(vals, k) ==
    1 + Cardinality({j \in 1..Len(vals) :
                        vals[j] < vals[k] \/ (vals[j] = vals[k] /\ j < k)})

\* number of quantile buckets of pd.qcut(..., 5, ...)
NumBuckets == 5

\* pd.qcut raises "Bin edges must be unique" when two of the edges
\* 1 + (n-1)*q/5 of the ranks 1..n coincide (and on an empty series)
qcut_raises(n) ==
    \/ n = 0
    \/ \E q1, q2 \in 0..NumBuckets : q1 < q2 /\ (n - 1) * q1 = (n - 1) * q2

\* the scoring lines raise: qcut on the ranks, or astype(int) on the score
\* of a customer whose recency is NaN (all order dates null)
rfm_raises(t) ==
    \/ qcut_raises(Len(Contacts(t)))
    \/ \E k \in 1..Len(Contacts(t)) : Recency(t, Contacts(t)[k]) = NaN

\* the bucket 1..5 of rank r among n ranks: the first right-closed interval
\* (edge[q-1], edge[q]] holding r, the lowest edge included
qcut(r, n) ==
    SetMin({q \in 1..NumBuckets : NumBuckets * (r - 1) <= (n - 1) * q})

\* variant: the recency labels not reversed
r_label_ascending(b) == b

\* labels=[5, 4, 3, 2, 1]
r_label(b) == NumBuckets + 1 - b
\* labels=[1, 2, 3, 4, 5]
fm_label(b) == b

\* variant: the top segment from 14 points on
segment_customer_above(total) ==
    IF total > 13 THEN "VIP"
    ELSE IF total >= 10 THEN "high-value"
    ELSE IF total >= 7 THEN "developing"
    ELSE "needs-attention"

\* 'VIP (최우수)' / '우수 고객' / '잠재 고객' / '집중 관리'
segment_customer(total) ==
    IF total >= 13 THEN "VIP"
    ELSE IF total >= 10 THEN "high-value"
    ELSE IF total >= 7 THEN "developing"
    ELSE "needs-attention"

\* the three qcut lines, RFM_Total and the segment, on the aggregated table
rfm_score(a) ==
    LET n == Len(a)
        rec == [k \in 1..n |-> a[k].Recency]
        frq == [k \in 1..n |-> a[k].Frequency]
        mon == [k \in 1..n |-> a[k].Monetary]
        R(k) == r_label(qcut(rank_first(rec, k), n))
        F(k) == fm_label(qcut(rank_first(frq, k), n))
        M(k) == fm_label(qcut(rank_first(mon, k), n))
    IN  [k \in 1..n |->
            a[k] @@ [R_score |-> R(k), F_score |-> F(k), M_score |-> M(k),
                     RFM_Total |-> R(k) + F(k) + M(k),
                     segment |-> segment_customer(R(k) + F(k) + M(k))]]

rfm_scores(t) == rfm_score(rfm_agg(t))

SegmentOf(tab, c) ==
    (CHOOSE x \in Range(tab) : x.contact = c).segment

\* df.merge(rfm[['주문자연락처', '고객세그먼트']], on='주문자연락처', how='left')
merge_segment(t, tab) ==
    [i \in 1..Len(t) |->
        t[i] @@ [segment |->
                    IF t[i].contact = NaN THEN NaN
                    ELSE SegmentOf(tab, t[i].contact)]]

\* the RFM block
rfm_block(t) ==
    IF HasColumn(t, "contact") THEN merge_segment(t, rfm_scores(t)) ELSE t

rfm_block_raises(t) == HasColumn(t, "contact") /\ rfm_raises(t)

----------------------------------------------------------------------------
(* load_data: cohort, lifetime value, lead time *)

\* Series.view(dtype='int64') of a period column: the ordinal, and the least
\* integer for a null; the model's integers are 16 bits wide
IntBits == 16
IntMin == -(2 ^ (IntBits - 1))
view_int(m) == IF m = NaT THEN IntMin ELSE m

\* integer subtraction, wrapping around
wrap_sub(a, b) == ((a - b - IntMin) % (2 ^ IntBits)) + IntMin

\* variant: the days between the two dates, in months
elapsed_by_days(t, i) ==
    days_between(t[i].orderDate, min_date(t, RowsOf(t, t[i].contact))) \div MonthLen

\* variant: the months counted from the first month of the dataset
elapsed_since_start(t, i) ==
    wrap_sub(view_int(to_period(t[i].orderDate)),
             view_int(to_period(min_date(t, 1..Len(t)))))

\* 주문월.view('int64') - 첫구매월.view('int64') of row i
elapsed(t, i) ==
    wrap_sub(view_int(to_period(t[i].orderDate)),
             view_int(to_period(min_date(t, RowsOf(t, t[i].contact)))))

cohort(t) ==
    IF HasColumn(t, "contact")
    THEN [i \in 1..Len(t) |->
            t[i] @@ [elapsed |-> elapsed(t, i),
                     orderMonth |-> to_period(t[i].orderDate),
                     firstMonth |->
                         to_period(min_date(t, RowsOf(t, t[i].contact)))]]
    ELSE t

\* variant: the revenue summed per order instead of per customer
cust_life_per_order(t) ==
    IF HasColumn(t, "contact")
    THEN [i \in 1..Len(t) |->
            LET mine == RowsOf(t, t[i].contact)
                order == {j \in mine : t[j].orderNo = t[i].orderNo}
            IN
            t[i] @@ [lifespan |-> days_between(max_date(t, mine), min_date(t, mine)),
                     lineCount |->
                         merged(t[i].contact,
                                Cardinality({j \in mine : t[j].orderDate # NaT})),
                     cumRevenue |-> merged(t[i].contact, SumOver(t, order))]]
    ELSE t

\* cust_life merged back: (x.max() - x.min()).days, count, sum
cust_life(t) ==
    IF HasColumn(t, "contact")
    THEN [i \in 1..Len(t) |->
            LET mine == RowsOf(t, t[i].contact) IN
            t[i] @@ [lifespan |-> days_between(max_date(t, mine), min_date(t, mine)),
                     lineCount |->
                         merged(t[i].contact,
                                Cardinality({j \in mine : t[j].orderDate # NaT})),
                     cumRevenue |-> merged(t[i].contact, SumOver(t, mine))]]
    ELSE t

\* np.where(paid > 0, 총할인액 / (paid + 총할인액), 0)
discount_rate(r) ==
    IF r.paid > 0 THEN Ratio(r.totalDiscount, r.paid + r.totalDiscount)
    ELSE Ratio(0, 1)

\* 개별할인율, and 배송리드타임 when the table has the shipment date
lead_time(t) ==
    [i \in 1..Len(t) |->
        IF HasColumn(t, "shipDate")
        THEN t[i] @@ [discountRate |-> discount_rate(t[i]),
                      leadTime |-> days_between(t[i].shipDate, t[i].orderDate)]
        ELSE t[i] @@ [discountRate |-> discount_rate(t[i])]]

----------------------------------------------------------------------------
(* load_data: purchase interval, churn risk, anchor product *)

\* sort_values(['주문자연락처', '주문일']) inside one customer: by date, nulls
\* last, equal dates in row order
SortsBefore(t, j, i) ==
    \/ t[j].orderDate # NaT /\ (t[i].orderDate = NaT \/ t[j].orderDate < t[i].orderDate)
    \/ t[j].orderDate = t[i].orderDate /\ j < i

\* the rows of the customer of row i sorted before row i
Earlier(t, i) == {j \in RowsOf(t, t[i].contact) : SortsBefore(t, j, i)}

\* groupby(...)['주문일'].shift(1) at row i: the date of the row just before
\* in the customer's sorted group, null for the first
shift_date(t, i) ==
    IF Earlier(t, i) = {} THEN NaT
    ELSE t[CHOOSE j \in Earlier(t, i) :
             \A k \in Earlier(t, i) \ {j} : SortsBefore(t, k, j)].orderDate

purchase_interval(t) ==
    IF HasColumn(t, "contact")
    THEN [i \in 1..Len(t) |->
            t[i] @@ [prevDate |-> shift_date(t, i),
                     interval |-> days_between(t[i].orderDate, shift_date(t, i))]]
    ELSE t

\* the fallback cycle of a dataset without a positive interval
DefaultCycle == 30

RECURSIVE SumCol(_, _, _)
SumCol(t, S, col) ==
    IF S = {} THEN 0
    ELSE LET i == CHOOSE x \in S : TRUE
         IN  fill0(t[i][col]) + SumCol(t, S \ {i}, col)

\* the rows with 구매간격 > 0
PositiveIntervals(t) == {i \in 1..Len(t) : t[i].interval > 0}

\* variant: the intervals of 0 days counted in the mean
avg_cycle_with_zeros(t) ==
    LET nonneg == {i \in 1..Len(t) : t[i].interval >= 0} IN
    IF nonneg # {}
    THEN Ratio(SumCol(t, nonneg, "interval"), Cardinality(nonneg))
    ELSE Ratio(DefaultCycle, 1)

\* avg_cycle: the mean of the positive intervals, or 30
avg_cycle(t) ==
    IF PositiveIntervals(t) # {}
    THEN Ratio(SumCol(t, PositiveIntervals(t), "interval"),
               Cardinality(PositiveIntervals(t)))
    ELSE Ratio(DefaultCycle, 1)

\* variant: the thresholds included in the upper class
classify_churn_inclusive(days, avg) ==
    IF days = NaN THEN "active"
    ELSE IF days * avg.den >= avg.num * 3 THEN "fully-churned"
    ELSE IF days * avg.den >= avg.num * 2 THEN "at-risk"
    ELSE IF days * avg.den >= avg.num THEN "caution"
    ELSE "active"

\* '완전 이탈' / '이탈 위험' / '주의 요망' / '활동 고객'; every comparison
\* of NaN days is false
classify_churn(days, avg) ==
    IF days = NaN THEN "active"
    ELSE IF days * avg.den > avg.num * 3 THEN "fully-churned"
    ELSE IF days * avg.den > avg.num * 2 THEN "at-risk"
    ELSE IF days * avg.den > avg.num THEN "caution"
    ELSE "active"

\* 미구매기간 of one customer
idle_days(t, c) == days_between(ref_date(t), max_date(t, RowsOf(t, c)))

\* last_purchase with 미구매기간 and 이탈위험도, merged back
churn(t) ==
    IF HasColumn(t, "contact")
    THEN [i \in 1..Len(t) |->
            t[i] @@ [churn |->
                         merged(t[i].contact,
                                classify_churn(idle_days(t, t[i].contact),
                                               avg_cycle(t))),
                     idle |-> idle_days(t, t[i].contact)]]
    ELSE t

\* variant: the first row of the customer, whatever its date
first_order_by_position(t, c) == SetMin(RowsOf(t, c))

\* first_orders: the head of each customer's sorted group
first_order(t, c) == CHOOSE i \in RowsOf(t, c) : Earlier(t, i) = {}

\* variant: every line of the earliest date kept in first_orders, so that
\* the merge repeats the rows of the customer
anchor_all_lines(t) ==
    IF HasColumn(t, "contact")
    THEN Flatten([i \in 1..Len(t) |->
            IF t[i].contact = NaN
            THEN <<t[i] @@ [firstOrderNo |-> NaN, firstProduct |-> NaN]>>
            ELSE LET mine == RowsOf(t, t[i].contact)
                     firsts == SortedSeq({j \in mine :
                                   t[j].orderDate = min_date(t, mine)})
                 IN  [k \in 1..Len(firsts) |->
                        t[i] @@ [firstOrderNo |-> t[firsts[k]].orderNo,
                                 firstProduct |-> t[firsts[k]].name]]])
    ELSE t

anchor(t) ==
    IF HasColumn(t, "contact")
    THEN [i \in 1..Len(t) |->
            IF t[i].contact = NaN
            THEN t[i] @@ [firstOrderNo |-> NaN, firstProduct |-> NaN]
            ELSE t[i] @@ [firstOrderNo |-> t[first_order(t, t[i].contact)].orderNo,
                          firstProduct |-> t[first_order(t, t[i].contact)].name]]
    ELSE t

----------------------------------------------------------------------------
(* load_data: turnover and price band *)

\* width of a price band
BandWidth == 10000

ProductRows(t, name) == {i \in 1..Len(t) : t[i].name = name}

\* variant: the division without .replace(0, 1)
turnover_unguarded(t, name) ==
    Ratio(SumCol(t, ProductRows(t, name), "qty"),
          Cardinality({t[i].orderNo : i \in ProductRows(t, name)} \ {NaN}))

\* 주문수량 sum / 주문번호 nunique .replace(0, 1) of one product
turnover(t, name) ==
    LET orders == Cardinality({t[i].orderNo : i \in ProductRows(t, name)} \ {NaN})
    IN  Ratio(SumCol(t, ProductRows(t, name), "qty"),
              IF orders = 0 THEN 1 ELSE orders)

\* np.where(qty > 0, 순매출 / qty, 0)
unit_price(r) == IF r.qty > 0 THEN Ratio(r.netRevenue, r.qty) ELSE Ratio(0, 1)

\* 단가 // 10000 * 10000
price_band(u) == ((u.num \div u.den) \div BandWidth) * BandWidth

product_columns(t) ==
    [i \in 1..Len(t) |->
        t[i] @@ [turnover |-> turnover(t, t[i].name),
                 unitPrice |-> unit_price(t[i]),
                 priceBand |-> price_band(unit_price(t[i]))]]

----------------------------------------------------------------------------
(* load_data: the stages composed *)

\* the body after the deduplication raises on table t
body_raises(t) ==
    \/ dates_raise(t)
    \/ rfm_block_raises(parse_dates(t))

\* the stages of the body after the deduplication, composed
enrich(t) ==
    LET a == discount_columns(customer_orders(derive_gp(fillna(parse_dates(t)))))
        b == purchase_interval(lead_time(cust_life(cohort(rfm_block(a)))))
    IN  product_columns(anchor(churn(b)))

----------------------------------------------------------------------------
(* The script run of one session *)

EmptyFrame == <<>>
NoCache == [value |-> EmptyFrame, valid |-> FALSE]

\* the positions inside load_data's body, after the glob
InBody == {"read", "concat", "dedup", "dates", "clean", "gp", "custagg",
           "discount", "rfm", "cohort", "ltv", "lead", "interval", "churn",
           "anchor", "product", "return"}

\* leaving load_data's frame: its locals are gone
DropLocals(s) ==
    /\ data_dir' = [data_dir EXCEPT ![s] = "rel"]
    /\ csv_files' = [csv_files EXCEPT ![s] = <<>>]
    /\ df_list' = [df_list EXCEPT ![s] = <<>>]
    /\ df' = [df EXCEPT ![s] = EmptyFrame]
    /\ rfm' = [rfm EXCEPT ![s] = <<>>]

\* a script run starts (first visit, or a rerun after a widget interaction)
Rerun(s) ==
    /\ pc[s] \in {"idle", "stopped", "error", "done"}
    /\ pc' = [pc EXCEPT ![s] = "call"]
    /\ df_raw' = [df_raw EXCEPT ![s] = EmptyFrame]
    /\ df_view' = [df_view EXCEPT ![s] = EmptyFrame]
    /\ csv' = [csv EXCEPT ![s] = EmptyFrame]
    /\ UNCHANGED <<dirs, cache, lock, changes, locals>>

\* df_raw = load_data() with the value in the cache: the body does not run
CacheHit(s) ==
    /\ pc[s] = "call"
    /\ cache.valid
    /\ df_raw' = [df_raw EXCEPT ![s] = cache.value]
    /\ pc' = [pc EXCEPT ![s] = "check"]
    /\ UNCHANGED <<dirs, cache, lock, changes, locals, df_view, csv>>

\* df_raw = load_data() with nothing in the cache: the body runs, one
\* session at a time
CacheMiss(s) ==
    /\ pc[s] = "call"
    /\ ~cache.valid
    /\ lock = "none"
    /\ lock' = s
    /\ pc' = [pc EXCEPT ![s] = "glob"]
    /\ UNCHANGED <<dirs, cache, changes, locals, df_raw, df_view, csv>>

\* the directory load_data reads: ./data/ if it has a CSV, else <script dir>/data
ChooseDir(ds) == IF DOMAIN ds["rel"] # {} THEN "rel" ELSE "abs"

\* after the glob: with no file, return pd.DataFrame(); else read the files
AfterGlob(files) == IF files = <<>> THEN "return" ELSE "read"

Glob(s) ==
    /\ pc[s] = "glob"
    /\ \E files \in glob(dirs[ChooseDir(dirs)]) :
        /\ data_dir' = [data_dir EXCEPT ![s] = ChooseDir(dirs)]
        /\ csv_files' = [csv_files EXCEPT ![s] = files]
        /\ pc' = [pc EXCEPT ![s] = AfterGlob(files)]
    /\ df_list' = [df_list EXCEPT ![s] = <<>>]
    /\ df' = [df EXCEPT ![s] = EmptyFrame]
    /\ UNCHANGED <<dirs, cache, lock, changes, rfm, df_raw, df_view, csv>>

NextFile(s) == csv_files[s][Len(df_list[s]) + 1]

\* variant: the partial table stored on the way out
on_exception_store(c, partial) == [value |-> partial, valid |-> TRUE]

\* the cache after the body raised with its df in state partial: the decorator
\* stores a value only when the body returns
on_exception(c, partial) == c

\* an exception leaves load_data: the module-level except shows the error
\* and stops the run
Raise(s) ==
    /\ cache' = on_exception(cache, df[s])
    /\ lock' = "none"
    /\ pc' = [pc EXCEPT ![s] = "error"]
    /\ DropLocals(s)
    /\ UNCHANGED <<dirs, changes, df_raw, df_view, csv>>

ReadFile(s) ==
    /\ pc[s] = "read"
    /\ ~ReadRaises(dirs[data_dir[s]], NextFile(s))
    /\ df_list' = [df_list EXCEPT ![s] =
                      read_csv_append(@, dirs[data_dir[s]][NextFile(s)], NextFile(s))]
    /\ pc' = [pc EXCEPT ![s] =
                 IF Len(df_list[s]) + 1 = Len(csv_files[s]) THEN "concat" ELSE "read"]
    /\ UNCHANGED <<dirs, cache, lock, changes, data_dir, csv_files, df, rfm,
                   df_raw, df_view, csv>>

ReadFileFails(s) ==
    /\ pc[s] = "read"
    /\ ReadRaises(dirs[data_dir[s]], NextFile(s))
    /\ Raise(s)

\* one stage of the body: df is rebound to the stage's result
Stage(s, from, to, result) ==
    /\ pc[s] = from
    /\ df' = [df EXCEPT ![s] = result]
    /\ pc' = [pc EXCEPT ![s] = to]
    /\ UNCHANGED <<dirs, cache, lock, changes, data_dir, csv_files, df_list,
                   df_raw, df_view, csv>>

Concat(s) == Stage(s, "concat", "dedup", concat(df_list[s])) /\ UNCHANGED rfm
DropDuplicates(s) == Stage(s, "dedup", "dates", drop_duplicates(df[s])) /\ UNCHANGED rfm

ParseDates(s) ==
    /\ pc[s] = "dates"
    /\ ~dates_raise(df[s])
    /\ Stage(s, "dates", "clean", parse_dates(df[s]))
    /\ UNCHANGED rfm

ParseDatesFails(s) ==
    /\ pc[s] = "dates"
    /\ dates_raise(df[s])
    /\ Raise(s)

FillNa(s) == Stage(s, "clean", "gp", fillna(df[s])) /\ UNCHANGED rfm
DeriveGP(s) == Stage(s, "gp", "custagg", derive_gp(df[s])) /\ UNCHANGED rfm
CustomerOrders(s) ==
    Stage(s, "custagg", "discount", customer_orders(df[s])) /\ UNCHANGED rfm
\* variant: the body returns before the RFM block
DiscountColumns_return(s) ==
    Stage(s, "discount", "return", discount_columns(df[s])) /\ UNCHANGED rfm

DiscountColumns(s) ==
    Stage(s, "discount", "rfm", discount_columns(df[s])) /\ UNCHANGED rfm

Rfm(s) ==
    /\ pc[s] = "rfm"
    /\ ~rfm_block_raises(df[s])
    /\ Stage(s, "rfm", "cohort", rfm_block(df[s]))
    /\ rfm' = [rfm EXCEPT ![s] =
                  IF HasColumn(df[s], "contact") THEN rfm_scores(df[s]) ELSE @]

RfmFails(s) ==
    /\ pc[s] = "rfm"
    /\ rfm_block_raises(df[s])
    /\ Raise(s)

Cohort(s) == Stage(s, "cohort", "ltv", cohort(df[s])) /\ UNCHANGED rfm
CustLife(s) == Stage(s, "ltv", "lead", cust_life(df[s])) /\ UNCHANGED rfm
LeadTime(s) == Stage(s, "lead", "interval", lead_time(df[s])) /\ UNCHANGED rfm
PurchaseInterval(s) ==
    Stage(s, "interval", "churn", purchase_interval(df[s])) /\ UNCHANGED rfm
Churn(s) == Stage(s, "churn", "anchor", churn(df[s])) /\ UNCHANGED rfm
Anchor(s) == Stage(s, "anchor", "product", anchor(df[s])) /\ UNCHANGED rfm
ProductColumns(s) ==
    Stage(s, "product", "return", product_columns(df[s])) /\ UNCHANGED rfm

\* return df: the value is stored in the cache and handed to the caller
Return(s) ==
    /\ pc[s] = "return"
    /\ cache' = [value |-> df[s], valid |-> TRUE]
    /\ lock' = "none"
    /\ df_raw' = [df_raw EXCEPT ![s] = df[s]]
    /\ pc' = [pc EXCEPT ![s] = "check"]
    /\ DropLocals(s)
    /\ UNCHANGED <<dirs, changes, df_view, csv>>

\* variant: the empty check missing
after_check_no_stop(raw) == "sidebar"

\* if df_raw.empty: st.warning(...); st.stop()
after_check(raw) == IF raw = EmptyFrame THEN "stopped" ELSE "sidebar"

Check(s) ==
    /\ pc[s] = "check"
    /\ pc' = [pc EXCEPT ![s] = after_check(df_raw[s])]
    /\ UNCHANGED <<dirs, cache, lock, changes, locals, df_raw, df_view, csv>>

----------------------------------------------------------------------------
(* The script after the load: sidebar filter, derived columns, export *)

\* the order-date part of the filter mask
mask(t, lo, hi) == {i \in 1..Len(t) : lo <= t[i].orderDate /\ t[i].orderDate <= hi}

\* df['할인여부'] = np.where(df['총할인액'] > 0, ...)
mark_discount(t) ==
    [i \in 1..Len(t) |-> t[i] @@ [discounted |-> t[i].totalDiscount > 0]]

\* variant: the filter applied to df_raw itself (df = df_raw = df_raw[mask])
filter_in_place(raw, lo, hi) ==
    [df_raw |-> Pick(raw, mask(raw, lo, hi)), df |-> Pick(raw, mask(raw, lo, hi))]

\* the segment and the churn label of the rows of v computed again from v
rescore(v) ==
    LET w == purchase_interval(Without(v, {"prevDate", "interval"})) IN
    [i \in 1..Len(v) |->
        [v[i] EXCEPT
            !.segment = SegmentOf(rfm_scores(v), v[i].contact),
            !.churn = classify_churn(idle_days(v, v[i].contact), avg_cycle(w))]]

\* variant: the filtered rows scored again
filter_rescored(raw, lo, hi) ==
    [df_raw |-> raw, df |-> rescore(Pick(raw, mask(raw, lo, hi)))]

\* df = df_raw[mask].copy(): the two tables the script holds afterwards
filter_copy(raw, lo, hi) == [df_raw |-> raw, df |-> Pick(raw, mask(raw, lo, hi))]

\* the column assignment acts on the object bound to df, which is the copy
assign_discounted(raw, view) == [df_raw |-> raw, df |-> mark_discount(view)]

Dates(t) == {t[i].orderDate : i \in 1..Len(t)}

AfterLoad == {"sidebar", "filtered", "marked", "done"}

Filter(s) ==
    /\ pc[s] = "sidebar"
    /\ \E lo, hi \in Dates(df_raw[s]) :
        /\ lo <= hi
        /\ df_raw' = [df_raw EXCEPT ![s] = filter_copy(df_raw[s], lo, hi).df_raw]
        /\ df_view' = [df_view EXCEPT ![s] = filter_copy(df_raw[s], lo, hi).df]
    /\ pc' = [pc EXCEPT ![s] = "filtered"]
    /\ UNCHANGED <<dirs, cache, lock, changes, locals, csv>>

MarkDiscount(s) ==
    /\ pc[s] = "filtered"
    /\ df_raw' = [df_raw EXCEPT ![s] = assign_discounted(df_raw[s], df_view[s]).df_raw]
    /\ df_view' = [df_view EXCEPT ![s] = assign_discounted(df_raw[s], df_view[s]).df]
    /\ pc' = [pc EXCEPT ![s] = "marked"]
    /\ UNCHANGED <<dirs, cache, lock, changes, locals, csv>>

\* csv = df.to_csv(index=False, encoding='cp949')
Export(s) ==
    /\ pc[s] = "marked"
    /\ csv' = [csv EXCEPT ![s] = df_view[s]]
    /\ pc' = [pc EXCEPT ![s] = "done"]
    /\ UNCHANGED <<dirs, cache, lock, changes, locals, df_raw, df_view>>

----------------------------------------------------------------------------
(* The environment: the data files change, the cache is cleared *)

\* file contents the environment may put in a directory
FileOne == <<Row(1, 1, 1, 0, 3, 1), WithCoupon(Row(2, 1, 2, 1, 2, 2), 1)>>
\* a file of one customer, with a line of FileOne's first order again
FileTwo == <<Row(1, 1, 1, 0, 4, NaN), Row(3, 1, 1, 1, NaN, 1)>>
\* a file written without the shipment date column
FileBare ==
    <<[paid |-> 3, orderNo |-> 1, prodCode |-> 1, contact |-> 1,
       orderDate |-> 0, supply |-> 1, coupon |-> 0, point |-> 0, payDate |-> 0,
       name |-> 1, qty |-> 1]>>

\* the contents a file of a given name may be given
Library(f) ==
    IF f = 1 THEN {File("cp949", FileOne)}
    ELSE {File("utf8", FileTwo), File("binary", <<>>)}

WriteFile(d, f, c) ==
    /\ changes < MaxChanges
    /\ (IF f \in DOMAIN dirs[d] THEN dirs[d][f] # c ELSE TRUE)
    /\ dirs' = [dirs EXCEPT ![d] = (f :> c) @@ @]
    /\ changes' = changes + 1
    /\ UNCHANGED <<cache, lock, pc, locals, df_raw, df_view, csv>>

RemoveFile(d, f) ==
    /\ changes < MaxChanges
    /\ f \in DOMAIN dirs[d]
    /\ dirs' = [dirs EXCEPT ![d] = [g \in DOMAIN @ \ {f} |-> @[g]]]
    /\ changes' = changes + 1
    /\ UNCHANGED <<cache, lock, pc, locals, df_raw, df_view, csv>>

\* the cache of the decorated function is emptied ("Clear cache")
ClearCache ==
    /\ cache.valid
    /\ cache' = NoCache
    /\ UNCHANGED <<dirs, lock, changes, pc, locals, df_raw, df_view, csv>>

----------------------------------------------------------------------------
(* Specification: sessions, a changing data directory and the cache *)

InitSessions ==
    /\ cache = NoCache
    /\ lock = "none"
    /\ changes = 0
    /\ pc = [s \in Sessions |-> "idle"]
    /\ data_dir = [s \in Sessions |-> "rel"]
    /\ csv_files = [s \in Sessions |-> <<>>]
    /\ df_list = [s \in Sessions |-> <<>>]
    /\ df = [s \in Sessions |-> EmptyFrame]
    /\ rfm = [s \in Sessions |-> <<>>]
    /\ df_raw = [s \in Sessions |-> EmptyFrame]
    /\ df_view = [s \in Sessions |-> EmptyFrame]
    /\ csv = [s \in Sessions |-> EmptyFrame]

Init ==
    /\ dirs \in {NoFiles,
                 [NoFiles EXCEPT !["abs"] = (1 :> File("cp949", FileBare))],
                 [NoFiles EXCEPT !["rel"] = (1 :> File("cp949", FileOne))
                                              @@ (2 :> File("utf8", FileTwo))]}
    /\ InitSessions

\* the body of load_data
LoadBody(s) ==
    \/ Glob(s) \/ ReadFile(s) \/ ReadFileFails(s)
    \/ Concat(s) \/ DropDuplicates(s) \/ ParseDates(s) \/ ParseDatesFails(s)
    \/ FillNa(s) \/ DeriveGP(s)
    \/ CustomerOrders(s) \/ DiscountColumns(s) \/ Rfm(s) \/ RfmFails(s)
    \/ Cohort(s) \/ CustLife(s) \/ LeadTime(s) \/ PurchaseInterval(s)
    \/ Churn(s) \/ Anchor(s) \/ ProductColumns(s)
    \/ Return(s)

\* the decorated load_data()
Load(s) == CacheHit(s) \/ CacheMiss(s) \/ LoadBody(s)

Script(s) ==
    \/ Rerun(s) \/ Load(s) \/ Check(s) \/ Filter(s) \/ MarkDiscount(s) \/ Export(s)

Environment ==
    \/ \E d \in Dirs, f \in FileNames : \E c \in Library(f) : WriteFile(d, f, c)
    \/ \E d \in Dirs, f \in FileNames : RemoveFile(d, f)
    \/ ClearCache

Next == (\E s \in Sessions : Script(s)) \/ Environment

Spec == Init /\ [][Next]_vars

----------------------------------------------------------------------------
(* Specification: one run of load_data's body over enumerated input files *)

\* the rows the enumerated input files are made of
RowPool ==
    {Row(1, 1, 1, 0, 3, 1),      \* an ordinary line
     Row(1, 1, 1, 0, NaN, 2),    \* the same key again, paid amount missing
     Row(1, 2, 1, 0, 1, 3),      \* same order, other product, sold at a loss
     Row(2, 1, 1, 2, 2, NaN),    \* a later order of customer 1, supply missing
     WithCoupon(Row(3, 1, 2, 1, 0, 1), NaN),  \* customer 2, nothing paid
     Row(4, 1, 3, 2, 5, 1)}      \* customer 3

TablesOver(pool, n) == UNION {[1..k -> pool] : k \in 0..n}

Tables(n) == TablesOver(RowPool, n)

\* where the files lie, how they are encoded and the columns they lack
Plain == [dir |-> "rel", enc |-> <<"cp949", "utf8">>, missing |-> {}]

Layouts ==
    {[dir |-> "abs", enc |-> <<"utf8", "cp949">>, missing |-> {}],
     [dir |-> "abs", enc |-> <<"cp949", "binary">>, missing |-> {}],
     [dir |-> "rel", enc |-> <<"cp949", "cp949">>, missing |-> {"shipDate"}]}

\* the directory holding rows t split after row k into files 1 and 2
\* (a part without rows is no file)
SplitFiles(t, k, enc) ==
    LET one == SubSeq(t, 1, k)
        two == SubSeq(t, k + 1, Len(t))
        names == {f \in FileNames : IF f = 1 THEN one # <<>> ELSE two # <<>>}
    IN  [f \in names |-> File(enc[f], IF f = 1 THEN one ELSE two)]

\* the directories holding a table of T under a layout of L
Inputs(T, L) ==
    UNION {{[NoFiles EXCEPT ![lay.dir] =
                SplitFiles(Without(t, lay.missing), k, lay.enc)] :
            k \in 0..Len(t)} : t \in T, lay \in L}

\* load_data's body entered by session s1 with the cache empty
BodyEntered ==
    /\ cache = NoCache
    /\ lock = "s1"
    /\ changes = 0
    /\ pc = [s \in Sessions |-> IF s = "s1" THEN "glob" ELSE "idle"]
    /\ data_dir = [s \in Sessions |-> "rel"]
    /\ csv_files = [s \in Sessions |-> <<>>]
    /\ df_list = [s \in Sessions |-> <<>>]
    /\ df = [s \in Sessions |-> EmptyFrame]
    /\ rfm = [s \in Sessions |-> <<>>]
    /\ df_raw = [s \in Sessions |-> EmptyFrame]
    /\ df_view = [s \in Sessions |-> EmptyFrame]
    /\ csv = [s \in Sessions |-> EmptyFrame]

\* every table under the plain layout, the shorter ones under the others
InitLoad ==
    /\ dirs \in Inputs(Tables(MaxRows), {Plain})
                    \cup Inputs(Tables(MaxRows - 1), Layouts)
    /\ BodyEntered

NextLoad == LoadBody("s1")

SpecLoad == InitLoad /\ [][NextLoad]_vars

----------------------------------------------------------------------------
(* Properties of the ingestion (SpecLoad) *)

\* the positions at which df carries the customer type
AfterCustAgg == {"discount", "rfm", "cohort", "ltv", "lead", "interval",
                 "churn", "anchor", "product", "return"}
AfterGP == {"custagg"} \cup AfterCustAgg
AfterDedup == {"dates", "clean", "gp"} \cup AfterGP

\* the position of the last row of t with the key of r
LastOf(t, r) == SetMax({i \in 1..Len(t) : Key(t[i]) = Key(r)})

\* row r of the table in progress is input row x, as far as the stages
\* after the deduplication keep the input columns
SameLine(r, x) ==
    /\ Key(r) = Key(x)
    /\ r.source_file = x.source_file
    /\ r.contact = x.contact
    /\ to_datetime(r.orderDate) = to_datetime(x.orderDate)
    /\ fill0(r.paid) = fill0(x.paid) /\ fill0(r.supply) = fill0(x.supply)
    /\ fill0(r.coupon) = fill0(x.coupon)

Keys(t) == {Key(t[i]) : i \in 1..Len(t)}

\* C1: after the deduplication, the table holds exactly one row per distinct
\* (order id, product code) of the concatenated files, and that row is the
\* last occurrence of the pair in concatenation order (so the one of the
\* file processed last), whatever the order of the files.
C1_DedupKeepsLast ==
    \A s \in Sessions : pc[s] \in AfterDedup =>
        LET all == concat(df_list[s]) IN
        /\ Keys(df[s]) = Keys(all)
        /\ \A i, j \in 1..Len(df[s]) : Key(df[s][i]) = Key(df[s][j]) => i = j
        /\ \A i \in 1..Len(df[s]) :
              SameLine(df[s][i], all[LastOf(all, df[s][i])])
        /\ pc[s] = "dates" =>
              \A i \in 1..Len(df[s]) : df[s][i] = all[LastOf(all, df[s][i])]

\* a key present in both files with different paid amounts has been collapsed
C1_Witness ==
    \E s \in Sessions :
        /\ pc[s] = "dates"
        /\ Len(df_list[s]) = 2
        /\ \E i \in 1..Len(df_list[s][1]), j \in 1..Len(df_list[s][2]) :
              /\ Key(df_list[s][1][i]) = Key(df_list[s][2][j])
              /\ df_list[s][1][i].paid # df_list[s][2][j].paid
        /\ Len(df[s]) < Len(concat(df_list[s]))

\* the keys of the rows of the files of the directory load_data reads
KeysOnDisk(d) ==
    UNION {Keys(dirs[d][f].rows) : f \in DOMAIN dirs[d]}

\* C2: the row count and the key set after ingestion are determined by the
\* files alone (so two runs over the same unchanged files agree on both,
\* whatever order the files are processed in), and deduplicating the
\* deduplicated table again changes nothing.
C2_IngestionIdempotent ==
    \A s \in Sessions : pc[s] \in AfterDedup =>
        /\ Keys(df[s]) = KeysOnDisk(data_dir[s])
        /\ Len(df[s]) = Cardinality(KeysOnDisk(data_dir[s]))
        /\ drop_duplicates(df[s]) = df[s]

\* two files with a common key and a further key have been ingested
C2_Witness ==
    \E s \in Sessions :
        /\ pc[s] = "dates"
        /\ Len(df_list[s]) = 2
        /\ Keys(df_list[s][1]) \cap Keys(df_list[s][2]) # {}
        /\ Len(df[s]) = 2
        /\ Len(concat(df_list[s])) = 3

\* C9: on every enriched row, GP is the paid amount (0 when missing) minus
\* the supply cost (0 when missing), unclamped; the margin is GP / paid
\* when paid > 0 and 0 when paid <= 0.
C9_GPAndMargin ==
    \A s \in Sessions : pc[s] \in AfterGP =>
        LET all == concat(df_list[s]) IN
        \A i \in 1..Len(df[s]) :
            LET r == df[s][i]
                x == all[LastOf(all, r)]
                paid0 == fill0(x.paid)
                supply0 == fill0(x.supply)
            IN  /\ r.GP = paid0 - supply0
                /\ r.margin.den > 0
                /\ paid0 > 0 => r.margin.num * paid0 = (paid0 - supply0) * r.margin.den
                /\ paid0 <= 0 => r.margin.num = 0

\* an enriched table with a loss line and with a line whose paid amount was missing
C9_Witness ==
    \E s \in Sessions :
        /\ pc[s] = "return"
        /\ \E i \in 1..Len(df[s]) : df[s][i].GP < 0 /\ df[s][i].paid > 0
        /\ \E i \in 1..Len(df[s]) :
              LET all == concat(df_list[s]) IN
              /\ all[LastOf(all, df[s][i])].paid = NaN
              /\ df[s][i].GP < 0
              /\ df[s][i].margin.num = 0

\* C10: of two customers of one dataset, the one with strictly smaller
\* recency-days has a recency score at least as high, the one with strictly
\* greater frequency a frequency score at least as high, and likewise for
\* the monetary value.
C10_RFMMonotone ==
    \A s \in Sessions :
        \A a, b \in Range(rfm[s]) :
            /\ a.Recency < b.Recency => a.R_score >= b.R_score
            /\ a.Frequency > b.Frequency => a.F_score >= b.F_score
            /\ a.Monetary > b.Monetary => a.M_score >= b.M_score

\* scored customers, two of them apart in recency and in recency score, two
\* apart in frequency and in frequency score, two in monetary value and score
C10_Witness ==
    \E s \in Sessions :
        /\ Len(rfm[s]) >= 2
        /\ \E a, b \in Range(rfm[s]) : a.Recency < b.Recency /\ a.R_score > b.R_score
        /\ \E a, b \in Range(rfm[s]) : a.Frequency > b.Frequency /\ a.F_score > b.F_score
        /\ \E a, b \in Range(rfm[s]) : a.Monetary > b.Monetary /\ a.M_score > b.M_score

\* C20: a row is labelled repeat iff its customer has rows with two different
\* order ids in the deduplicated dataset, and new otherwise; a customer
\* whose rows all carry one order id is new however many lines it has.
C20_RepeatIffTwoOrders ==
    \A s \in Sessions : pc[s] \in AfterCustAgg =>
        \A i \in 1..Len(df[s]) :
            LET mine == RowsOf(df[s], df[s][i].contact)
                two == \E j, k \in mine : df[s][j].orderNo # df[s][k].orderNo
            IN  /\ df[s][i].custType = "repeat" <=> two
                /\ df[s][i].custType = "new" <=> ~two

\* a customer with two product lines of one order is new, next to another
\* customer
C20_Witness ==
    \E s \in Sessions :
        /\ pc[s] \in AfterCustAgg
        /\ \E i, j \in 1..Len(df[s]) :
              /\ i # j
              /\ df[s][i].contact = df[s][j].contact
              /\ df[s][i].orderNo = df[s][j].orderNo
              /\ df[s][i].custType = "new"
        /\ Len(Contacts(df[s])) > 1

----------------------------------------------------------------------------
(* Properties of the cached load and of the script (Spec, SpecLoad) *)

\* what the for loop of load_data collects from the files of dir, in order
ReadAll(dir, order) ==
    [i \in 1..Len(order) |-> TagSource(dir[order[i]].rows, order[i])]

\* load_data's body raises nowhere on the files of dir taken in this order
Derivable(dir, order) ==
    /\ \A i \in 1..Len(order) : ~ReadRaises(dir, order[i])
    /\ ~body_raises(drop_duplicates(concat(ReadAll(dir, order))))

\* the tables the body of load_data can return for directories ds
FullDerivations(ds) ==
    LET dir == ds[ChooseDir(ds)] IN
    IF DOMAIN dir = {} THEN {EmptyFrame}
    ELSE {enrich(drop_duplicates(concat(ReadAll(dir, o)))) :
             o \in {x \in glob(dir) : Derivable(dir, x)}}

\* C3 (as claimed): the dataset a load returns from the cache is the full
\* derivation of the source files as they are at that load, never a stale one.
C3_LoadNeverStale ==
    [][\A s \in Sessions :
          (pc[s] = "call" /\ pc'[s] = "check") =>
              df_raw'[s] \in FullDerivations(dirs)]_vars

\* C4 (as claimed): when one of several files exists but can be read neither
\* as cp949 nor as utf-8, the load does not fail at that file: the file is
\* left out and the load goes on with the other files.
C4_UnreadableFileSkipped ==
    [][\A s \in Sessions :
          (/\ pc[s] = "read"
           /\ Len(csv_files[s]) > 1
           /\ NextFile(s) \in DOMAIN dirs[data_dir[s]]
           /\ ReadRaises(dirs[data_dir[s]], NextFile(s)))
          => pc'[s] # "error"]_vars

\* C5: when load_data's glob finds no CSV file in either location, the body
\* goes straight to returning the empty table and does not raise; and a
\* script run whose load returned the empty table stops there: the filter,
\* the derived columns and the export run only on a non-empty df_raw.
C5_NoDataHalts ==
    \A s \in Sessions :
        /\ (pc[s] \in InBody /\ csv_files[s] = <<>>) =>
              (pc[s] = "return" /\ df[s] = EmptyFrame)
        /\ pc[s] \in AfterLoad => df_raw[s] # EmptyFrame
        /\ pc[s] = "stopped" => (df_raw[s] = EmptyFrame /\ df_view[s] = EmptyFrame)

\* a run that computed the load over two empty locations has stopped
C5_Witness ==
    \E s \in Sessions :
        /\ pc[s] = "stopped"
        /\ DOMAIN dirs["rel"] = {} /\ DOMAIN dirs["abs"] = {}
        /\ changes = 0
        /\ cache.valid /\ cache.value = EmptyFrame

\* C6: a run of load_data's body that raises leaves the cache as it was, and
\* the cache receives a value only from a body that reached its return, the
\* value being the table that body returns.
C6_FailureKeepsCache ==
    [][/\ \A s \in Sessions :
            (pc[s] \in InBody /\ pc'[s] = "error") => cache' = cache
       /\ (cache' # cache /\ cache'.valid) =>
            (\E r \in Sessions :
                pc[r] = "return" /\ pc'[r] = "check" /\ cache'.value = df[r])]_vars

\* a recomputation after the cache was emptied has failed, while another
\* session still holds the dataset computed before
C6_Witness ==
    \E s, r \in Sessions :
        /\ pc[s] = "error"
        /\ ~cache.valid
        /\ pc[r] \in AfterLoad
        /\ df_raw[r] # EmptyFrame
        /\ changes > 0

RawColumns ==
    {"orderNo", "prodCode", "contact", "orderDate", "paid", "supply",
     "coupon", "point", "payDate", "shipDate", "name", "qty", "source_file"}

\* the input columns of a table
Base(t) ==
    [i \in 1..Len(t) |-> [f \in RawColumns \cap DOMAIN t[i] |-> t[i][f]]]

\* every stage of the body has been applied to every row of t
Complete(t) == t = EmptyFrame \/ t = enrich(Base(t))

\* C7: whatever the sessions are doing, the table a script run holds as
\* df_raw and the table in the cache are complete results of load_data: no
\* table with only some stages applied is ever visible outside the body.
C7_ReadersSeeCompleteTables ==
    /\ cache.valid => Complete(cache.value)
    /\ \A s \in Sessions :
          pc[s] \in {"check", "stopped"} \cup AfterLoad => Complete(df_raw[s])

\* one session is in the middle of a recomputation over changed files while
\* another one works on the dataset computed before
C7_Witness ==
    \E s, r \in Sessions :
        /\ pc[s] \in {"gp", "custagg", "discount", "rfm"}
        /\ ~Complete(df[s])
        /\ pc[r] \in AfterLoad
        /\ df_raw[r] # EmptyFrame
        /\ changes > 0
        /\ Keys(df[s]) # Keys(df_raw[r])

\* C8: from the return of load_data to the end of the script run, df_raw
\* stays the table load_data returned, and no step of the script after the
\* load changes the cache.
C8_ConsumersLeaveRawAlone ==
    [][\A s \in Sessions :
          /\ (pc[s] \in {"check"} \cup AfterLoad /\ pc'[s] \in AfterLoad) =>
                df_raw'[s] = df_raw[s]
          /\ (pc[s] \in AfterLoad /\ pc'[s] \in AfterLoad /\ pc'[s] # pc[s]) =>
                cache' = cache]_vars

\* a run has filtered rows away, added its column to the copy and exported
\* it, and df_raw is still the complete table in the cache
C8_Witness ==
    \E s \in Sessions :
        /\ pc[s] = "done"
        /\ csv[s] # EmptyFrame
        /\ Len(csv[s]) < Len(df_raw[s])
        /\ "discounted" \in DOMAIN csv[s][1]
        /\ "discounted" \notin DOMAIN df_raw[s][1]
        /\ cache.valid /\ df_raw[s] = cache.value

----------------------------------------------------------------------------
(* Specification: the scoring of an aggregated customer table *)

\* number of customers of an enumerated aggregated table
MaxCustomers == 7

\* the (Recency, Frequency, Monetary) values a customer of the table may have
MetricPool ==
    {[Recency |-> 0, Monetary |-> 5, Frequency |-> 2],
     [Recency |-> 1, Monetary |-> 2, Frequency |-> 1],
     [Recency |-> 2, Monetary |-> 0, Frequency |-> 1],
     [Recency |-> 0, Monetary |-> 0, Frequency |-> 1]}

\* the scoring lines on load_data's rfm: three qcut columns, total, segment
ScoreRfm(s) ==
    /\ pc[s] = "score"
    /\ ~qcut_raises(Len(rfm[s]))
    /\ rfm' = [rfm EXCEPT ![s] = rfm_score(rfm[s])]
    /\ pc' = [pc EXCEPT ![s] = "scored"]
    /\ UNCHANGED <<dirs, cache, lock, changes, data_dir, csv_files, df_list,
                   df, df_raw, df_view, csv>>

ScoreRfmFails(s) ==
    /\ pc[s] = "score"
    /\ qcut_raises(Len(rfm[s]))
    /\ Raise(s)

\* rfm as the groupby/agg leaves it: one row per customer in key order; the
\* customer who ordered on the reference date has recency 0
InitRfm ==
    /\ \E n \in 1..MaxCustomers : \E m \in [1..n -> MetricPool] :
        /\ \E k \in 1..n : m[k].Recency = 0
        /\ rfm = [s \in Sessions |->
                    IF s = "s1" THEN [k \in 1..n |-> [contact |-> k] @@ m[k]]
                    ELSE <<>>]
    /\ dirs = NoFiles
    /\ cache = NoCache
    /\ lock = "s1"
    /\ changes = 0
    /\ pc = [s \in Sessions |-> IF s = "s1" THEN "score" ELSE "idle"]
    /\ data_dir = [s \in Sessions |-> "rel"]
    /\ csv_files = [s \in Sessions |-> <<>>]
    /\ df_list = [s \in Sessions |-> <<>>]
    /\ df = [s \in Sessions |-> EmptyFrame]
    /\ df_raw = [s \in Sessions |-> EmptyFrame]
    /\ df_view = [s \in Sessions |-> EmptyFrame]
    /\ csv = [s \in Sessions |-> EmptyFrame]

NextRfm == ScoreRfm("s1") \/ ScoreRfmFails("s1")

SpecRfm == InitRfm /\ [][NextRfm]_vars

----------------------------------------------------------------------------
(* Properties of the scoring (SpecRfm) *)

Scored(s) == pc[s] = "scored"

\* C11: every scored customer has exactly the segment of its composite
\* total: VIP from 13 on, high-value for 10..12, developing for 7..9 and
\* needs-attention below 7.
C11_SegmentBoundaries ==
    \A s \in Sessions : Scored(s) =>
        \A x \in Range(rfm[s]) :
            /\ x.segment = "VIP" <=> x.RFM_Total >= 13
            /\ x.segment = "high-value" <=> x.RFM_Total \in 10..12
            /\ x.segment = "developing" <=> x.RFM_Total \in 7..9
            /\ x.segment = "needs-attention" <=> x.RFM_Total < 7

\* one scored table holds customers at the four boundary totals 13, 12, 7, 6
C11_Witness ==
    \E s \in Sessions :
        /\ Scored(s)
        /\ \A b \in {13, 12, 7, 6} : \E x \in Range(rfm[s]) : x.RFM_Total = b

\* C18 (as claimed): for every table of n >= 1 customers the scoring
\* completes, with the three scores in 1..5 and the total in 3..15.
C18_ScoringCompletes ==
    [][\A s \in Sessions :
          (pc[s] = "score" /\ Len(rfm[s]) >= 1) =>
              /\ pc'[s] = "scored"
              /\ \A x \in Range(rfm'[s]) :
                    /\ {x.R_score, x.F_score, x.M_score} \subseteq 1..NumBuckets
                    /\ x.RFM_Total \in 3..15]_vars

\* the customers of a scored table holding score v in column col
Bucket(tab, col, v) == {k \in 1..Len(tab) : tab[k][col] = v}

\* C19: in each of the three dimensions of a scored table of n customers,
\* the five scores are held by exactly n/5 customers each when 5 divides n,
\* and by numbers of customers that differ by at most one otherwise.
C19_EqualBuckets ==
    \A s \in Sessions : Scored(s) =>
        \A col \in {"R_score", "F_score", "M_score"} :
            LET n == Len(rfm[s])
                size(v) == Cardinality(Bucket(rfm[s], col, v))
            IN  /\ n % NumBuckets = 0 =>
                      \A v \in 1..NumBuckets : size(v) * NumBuckets = n
                /\ \A v, w \in 1..NumBuckets : size(v) - size(w) <= 1

\* a scored table of five customers among whom values are tied, and one of
\* a size 5 does not divide
C19_Witness ==
    \E s \in Sessions :
        /\ Scored(s)
        /\ Len(rfm[s]) = NumBuckets
        /\ \E a, b \in Range(rfm[s]) :
              a.contact # b.contact /\ a.Frequency = b.Frequency

----------------------------------------------------------------------------
(* Specification: one run of load_data's body over inputs with many dates, *)
(* null dates and missing columns                                          *)

WithShip(r, d) == [r EXCEPT !.shipDate = d]

\* lines of three customers over three months, two of them with an order
\* date that does not parse
DatePool ==
    {Row(1, 1, 1, 0, 1, 0),
     Row(2, 1, 1, 1, 1, 0),
     Row(3, 1, 1, 4, 1, 0),
     Row(4, 1, 2, 2, 1, 0),
     Row(5, 1, 2, 3, 1, 0),
     Row(6, 1, 2, 4, 1, 0),
     Row(7, 1, 2, 5, 1, 0),
     WithShip(Row(8, 1, 1, BadDate, 1, 0), 1),
     WithShip(Row(9, 1, 3, BadDate, 1, 0), BadDate)}

\* lines of two customers with a coupon, points and a later shipment
ColumnPool ==
    {WithCoupon(Row(1, 1, 1, 0, 3, 1), 1),
     [Row(2, 1, 1, 2, 2, 1) EXCEPT !.point = NaN],
     WithShip(Row(3, 2, 2, 1, 4, 5), 2)}

\* the directory holding table t as one cp949 file
OneFile(t) == [NoFiles EXCEPT !["rel"] = SplitFiles(t, Len(t), Plain.enc)]

InitInput ==
    /\ dirs \in {OneFile(t) : t \in TablesOver(DatePool, MaxRows)}
          \cup {OneFile(Without(t, missing)) :
                    t \in TablesOver(ColumnPool, MaxRows),
                    missing \in SUBSET OptionalColumns}
          \cup Inputs(TablesOver(ColumnPool, 1), Layouts)
    /\ BodyEntered

SpecInput == InitInput /\ [][NextLoad]_vars

----------------------------------------------------------------------------
(* Properties of the customer stages (SpecInput, Spec) *)

AfterChurn == {"anchor", "product", "return"}
AfterCohort == {"ltv", "lead", "interval", "churn"} \cup AfterChurn

\* the sum and the number of the gaps between the consecutive different
\* order dates of each customer of t
GapSum(t) ==
    LET span(c) == max_date(t, RowsOf(t, c)) - min_date(t, RowsOf(t, c))
        cs == Contacts(t)
        sum[k \in 0..Len(cs)] == IF k = 0 THEN 0 ELSE sum[k - 1] + span(cs[k])
    IN  sum[Len(cs)]

GapCount(t) ==
    LET gaps(c) == Cardinality(ValidDates(t, RowsOf(t, c))) - 1
        cs == Contacts(t)
        cnt[k \in 0..Len(cs)] == IF k = 0 THEN 0 ELSE cnt[k - 1] + gaps(cs[k])
    IN  cnt[Len(cs)]

\* C12: with idle the days from a customer's last order date to the latest
\* order date of the dataset, and mean the mean of the positive purchase
\* intervals (GapSum / GapCount), the customer's rows are labelled
\* fully-churned iff idle > 3*mean, at-risk iff 2*mean < idle <= 3*mean,
\* caution iff mean < idle <= 2*mean, and active iff idle <= mean.
C12_ChurnClasses ==
    \A s \in Sessions :
        (pc[s] \in AfterChurn /\ HasColumn(df[s], "contact")
            /\ GapCount(df[s]) > 0) =>
        \A i \in 1..Len(df[s]) :
            LET t == df[s]
                idle == ref_date(t) - max_date(t, RowsOf(t, t[i].contact))
                scaled == idle * GapCount(t)
                mean == GapSum(t)
            IN  /\ t[i].churn = "fully-churned" <=> scaled > 3 * mean
                /\ t[i].churn = "at-risk" <=>
                      (2 * mean < scaled /\ scaled <= 3 * mean)
                /\ t[i].churn = "caution" <=>
                      (mean < scaled /\ scaled <= 2 * mean)
                /\ t[i].churn = "active" <=> scaled <= mean

\* a customer idle for exactly three times the mean interval is at risk,
\* next to an active customer
C12_Witness ==
    \E s \in Sessions :
        /\ pc[s] \in AfterChurn
        /\ HasColumn(df[s], "contact")
        /\ GapCount(df[s]) > 0
        /\ \E i, j \in 1..Len(df[s]) :
              /\ df[s][i].idle > 0
              /\ df[s][i].idle * GapCount(df[s]) = 3 * GapSum(df[s])
              /\ df[s][i].churn = "at-risk"
              /\ df[s][j].churn = "active"

C17_NullDatesNeverFail ==
    [][\A s \in Sessions :
          (/\ pc[s] = "rfm"
           /\ HasColumn(df[s], "contact")
           /\ Len(Contacts(df[s])) > 1
           /\ \E i \in 1..Len(df[s]) : df[s][i].orderDate = NaT)
          => pc'[s] # "error"]_vars

\* the columns every input file has
RequiredColumns == RawColumns \ OptionalColumns

\* C16 (as claimed): a table that lacks none but optional columns passes
\* the date conversion without raising.
C16_MissingColumnsNeverFail ==
    [][\A s \in Sessions :
          (/\ pc[s] = "dates"
           /\ df[s] # EmptyFrame
           /\ \A i \in 1..Len(df[s]) : RequiredColumns \subseteq DOMAIN df[s][i])
          => pc'[s] # "error"]_vars

\* the columns load_data derives per customer, and the other derived ones
CustomerFields ==
    {"totalOrders", "segment", "orderMonth", "firstMonth", "elapsed",
     "lifespan", "lineCount", "cumRevenue", "prevDate", "interval", "churn",
     "idle", "firstOrderNo", "firstProduct"}
LineFields ==
    {"GP", "margin", "coupon", "point", "totalDiscount", "netRevenue",
     "discountRate", "turnover", "unitPrice", "priceBand"}

AfterDates == AfterDedup \ {"dates"}

NoContact(t) == t # EmptyFrame /\ ~HasColumn(t, "contact")

Filtered == {"filtered", "marked", "done"}

\* the churn label of customer c scored on table v alone
ChurnOn(v, c) ==
    classify_churn(idle_days(v, c),
                   IF GapCount(v) > 0 THEN Ratio(GapSum(v), GapCount(v))
                   ELSE Ratio(DefaultCycle, 1))

----------------------------------------------------------------------------
(* Specification: one run of load_data's body over orders of several       *)
(* lines, quantities and prices, with empty contact and order number cells *)

WithQty(r, q) == [r EXCEPT !.qty = q]

\* lines of three customers and one line without a contact
OrderPool ==
    {WithQty(Row(1, 1, 1, 0, 25000, 1), 2),  \* first order of customer 1, two pieces
     Row(1, 2, 1, 0, 3, 1),                  \* the same order, a second line
     WithCoupon(Row(2, 1, 1, 2, 10000, 1), 500),  \* a later order, with a coupon
     WithQty(Row(3, 2, 2, 1, 4, 1), 0),      \* customer 2, quantity 0
     Row(4, 1, 2, 33, 19999, 1),             \* customer 2 again, a month later
     Row(5, 1, NaN, 34, 1, 1),               \* no contact, the latest date
     WithQty(Row(NaN, 3, 1, 1, 1, 1), 5),    \* no order number, five pieces
     Row(6, 2, 3, 3, 0 - 5000, 1)}           \* customer 3, a refund

InitOrders ==
    /\ dirs \in {OneFile(t) : t \in TablesOver(OrderPool, MaxRows)}
          \cup Inputs(TablesOver(ColumnPool, 1), Layouts)
    /\ BodyEntered

SpecOrders == InitOrders /\ [][NextLoad]_vars

----------------------------------------------------------------------------
(* Properties of the order stages (SpecOrders) *)

AfterInterval == {"churn"} \cup AfterChurn

\* the rows of the customer of row i that belong to another order and are
\* sorted before row i
PrecedingOrders(t, i) ==
    {j \in Earlier(t, i) : t[j].orderNo # t[i].orderNo}

\* C21 (as claimed): on every row of a customer the purchase interval is
\* null when no other order of the customer precedes the row's order, and
\* else is the number of days from the latest preceding order to the row's
\* order, also for the second and later lines of an order.
C21_IntervalBetweenOrders ==
    \A s \in Sessions :
        (pc[s] \in AfterInterval /\ HasColumn(df[s], "contact")) =>
        \A i \in 1..Len(df[s]) :
            LET t == df[s] IN
            (t[i].contact # NaN /\ t[i].orderDate # NaT) =>
                IF PrecedingOrders(t, i) = {}
                THEN t[i].interval = NaN
                ELSE t[i].interval =
                        t[i].orderDate - max_date(t, PrecedingOrders(t, i))


\* the sum and the number of the purchase intervals > 0 of the rows of t
IntervalSum(t) ==
    LET sum[k \in 0..Len(t)] ==
            IF k = 0 THEN 0
            ELSE sum[k - 1] + (IF t[k].interval > 0 THEN t[k].interval ELSE 0)
    IN  sum[Len(t)]

IntervalCount(t) == Cardinality({k \in 1..Len(t) : t[k].interval > 0})

\* the label of idle days against the thresholds of the mean num / den
LabelUnder(idle, num, den) ==
    IF idle * den > 3 * num THEN "fully-churned"
    ELSE IF idle * den > 2 * num THEN "at-risk"
    ELSE IF idle * den > num THEN "caution"
    ELSE "active"

\* C22: the churn labels are those of the thresholds of a mean that is the
\* sum of the purchase intervals > 0 divided by their number, and that is 30
\* when no purchase interval is > 0; this mean is > 0.
C22_MeanOfPositiveIntervals ==
    \A s \in Sessions :
        (pc[s] \in AfterChurn /\ HasColumn(df[s], "contact")) =>
        LET t == df[s]
            num == IF IntervalCount(t) = 0 THEN 30 ELSE IntervalSum(t)
            den == IF IntervalCount(t) = 0 THEN 1 ELSE IntervalCount(t)
        IN  /\ num > 0 /\ den > 0
            /\ \A i \in 1..Len(t) :
                  t[i].contact # NaN =>
                      t[i].churn = LabelUnder(t[i].idle, num, den)

\* a dataset without a positive interval: a customer idle for 30 days is
\* active and a customer idle for 31 days calls for caution
C22_Witness ==
    \E s \in Sessions :
        /\ pc[s] \in AfterChurn
        /\ HasColumn(df[s], "contact")
        /\ IntervalCount(df[s]) = 0
        /\ \E i, j \in 1..Len(df[s]) :
              /\ df[s][i].idle = 30 /\ df[s][i].churn = "active"
              /\ df[s][j].idle = 31 /\ df[s][j].churn = "caution"


AfterAnchor == {"product", "return"}

\* the rows of customer c that carry the customer's earliest order date
EarliestRows(t, c) ==
    {j \in RowsOf(t, c) : t[j].orderDate = min_date(t, RowsOf(t, c))}

\* C23: on every row of a customer the anchor product is the product name
\* of the first row, in row order, among the customer's rows with the
\* customer's earliest order date.
C23_AnchorOfEarliestOrder ==
    \A s \in Sessions :
        (pc[s] \in AfterAnchor /\ HasColumn(df[s], "contact")) =>
        \A i \in 1..Len(df[s]) :
            LET t == df[s] IN
            (t[i].contact # NaN /\ EarliestRows(t, t[i].contact) # {}) =>
                t[i].firstProduct =
                    t[SetMin(EarliestRows(t, t[i].contact))].name

\* a customer with two lines of different products on the earliest date,
\* next to a later line: the anchor is the product of the first of the two
C23_Witness ==
    \E s \in Sessions :
        /\ pc[s] \in AfterAnchor
        /\ HasColumn(df[s], "contact")
        /\ \E i, j \in 1..Len(df[s]) :
              /\ i < j
              /\ df[s][i].contact # NaN
              /\ {i, j} \subseteq EarliestRows(df[s], df[s][i].contact)
              /\ df[s][i].name # df[s][j].name
              /\ df[s][j].firstProduct = df[s][i].name


\* the pieces sold of the product of row i, and its distinct order numbers
QtySold(t, i) ==
    LET sum[k \in 0..Len(t)] ==
            IF k = 0 THEN 0
            ELSE sum[k - 1] + (IF t[k].name = t[i].name /\ t[k].qty # NaN
                               THEN t[k].qty ELSE 0)
    IN  sum[Len(t)]

OrdersOf(t, i) ==
    {t[k].orderNo : k \in {k \in 1..Len(t) : t[k].name = t[i].name}} \ {NaN}

\* C24: on every row of the returned table the turnover index is a defined
\* ratio equal to the pieces sold of the row's product divided by the number
\* of its distinct order numbers, 1 taking the place of a number of 0.
C24_TurnoverPerOrder ==
    \A s \in Sessions :
        pc[s] = "return" =>
        \A i \in 1..Len(df[s]) :
            LET t == df[s]
                n == Cardinality(OrdersOf(t, i))
            IN  /\ t[i].turnover.den > 0
                /\ t[i].turnover.num * (IF n = 0 THEN 1 ELSE n)
                      = QtySold(t, i) * t[i].turnover.den

\* a product sold in five pieces on a line without an order number, next to
\* a product with several orders
C24_Witness ==
    \E s \in Sessions :
        /\ pc[s] = "return"
        /\ \E i, j \in 1..Len(df[s]) :
              /\ OrdersOf(df[s], i) = {}
              /\ QtySold(df[s], i) = 5
              /\ df[s][i].turnover = Ratio(5, 1)
              /\ Cardinality(OrdersOf(df[s], j)) > 1


\* C25: on every row of the returned table the net revenue is the paid
\* amount, the unit price is the net revenue divided by the quantity when
\* the quantity is > 0 and 0 otherwise, and the price band is the multiple
\* 10000 * k of 10000 with 10000 * k <= unit price < 10000 * (k + 1).
C25_UnitPriceAndBand ==
    \A s \in Sessions :
        pc[s] = "return" =>
        \A i \in 1..Len(df[s]) :
            LET r == df[s][i]
                u == r.unitPrice
            IN  /\ r.netRevenue = r.paid
                /\ u.den > 0
                /\ IF r.qty > 0
                   THEN u.num * r.qty = r.netRevenue * u.den
                   ELSE u.num = 0
                /\ r.priceBand % 10000 = 0
                /\ r.priceBand * u.den <= u.num
                /\ u.num < (r.priceBand + 10000) * u.den

\* a discounted line with a unit price of exactly 10000 in the band 10000,
\* a line of two pieces at 12500 each in the same band, and a paid line of
\* quantity 0 with the unit price 0
C25_Witness ==
    \E s \in Sessions :
        /\ pc[s] = "return"
        /\ \E i, j, k \in 1..Len(df[s]) :
              /\ df[s][i].totalDiscount > 0
              /\ df[s][i].unitPrice = Ratio(10000, 1)
              /\ df[s][i].priceBand = 10000
              /\ df[s][j].qty = 2
              /\ df[s][j].unitPrice = Ratio(25000, 2)
              /\ df[s][j].priceBand = 10000
              /\ df[s][k].qty = 0
              /\ df[s][k].paid > 0
              /\ df[s][k].unitPrice.num = 0


----------------------------------------------------------------------------
(* extract_region and the 지역 column (lines 84-89) *)

\* longest address text
MaxAddress == 4

\* the characters of an address: a blank and two others
Chars == {" ", "a", "b"}

\* an address cell is a sequence of characters, or MissingText for NaN
MissingText == <<"NaN">>
\* the sentinel "기타"
Unclassified == <<"etc">>

Addresses == {MissingText} \cup UNION {[1..n -> Chars] : n \in 0..MaxAddress}

\* str.split(): the maximal runs without a blank, in order
RECURSIVE split(_)
split(a) ==
    IF a = <<>> THEN <<>>
    ELSE IF Head(a) = " " THEN split(Tail(a))
    ELSE LET blanks == {k \in 1..Len(a) : a[k] = " "}
             n == IF blanks = {} THEN Len(a) ELSE SetMin(blanks) - 1
         IN  <<SubSeq(a, 1, n)>> \o split(SubSeq(a, n + 1, Len(a)))

\* pd.isna(address) or address == ""
no_address(a) == a = MissingText \/ a = <<>>

\* str(address).split()[0] raises IndexError on an empty list
region_raises(a) == ~no_address(a) /\ split(a) = <<>>

extract_region(a) == IF no_address(a) THEN Unclassified ELSE split(a)[1]

\* df['지역'] = df['주소'].apply(extract_region)
ExtractRegion(s) ==
    /\ pc[s] = "tags"
    /\ \A i \in 1..Len(df[s]) : ~region_raises(df[s][i].address)
    /\ Stage(s, "tags", "custagg",
             [i \in 1..Len(df[s]) |->
                 df[s][i] @@ [region |-> extract_region(df[s][i].address)]])
    /\ UNCHANGED rfm

ExtractRegionFails(s) ==
    /\ pc[s] = "tags"
    /\ \E i \in 1..Len(df[s]) : region_raises(df[s][i].address)
    /\ Raise(s)

\* load_data's body at line 89 with a table of one address
InitRegion ==
    /\ \E a \in Addresses :
        df = [s \in Sessions |-> IF s = "s1" THEN <<[address |-> a]>> ELSE EmptyFrame]
    /\ dirs = NoFiles
    /\ cache = NoCache
    /\ lock = "s1"
    /\ changes = 0
    /\ pc = [s \in Sessions |-> IF s = "s1" THEN "tags" ELSE "idle"]
    /\ data_dir = [s \in Sessions |-> "rel"]
    /\ csv_files = [s \in Sessions |-> <<>>]
    /\ df_list = [s \in Sessions |-> <<>>]
    /\ rfm = [s \in Sessions |-> <<>>]
    /\ df_raw = [s \in Sessions |-> EmptyFrame]
    /\ df_view = [s \in Sessions |-> EmptyFrame]
    /\ csv = [s \in Sessions |-> EmptyFrame]

NextRegion == ExtractRegion("s1") \/ ExtractRegionFails("s1")

SpecRegion == InitRegion /\ [][NextRegion]_vars

\* C26 (as claimed): for every address the region is the first token
\* between blanks when the address has one and the sentinel when the address
\* is missing or empty, and the extraction raises for no address text,
\* one made of blanks only included.
C26_RegionOfEveryAddress ==
    \A s \in Sessions :
        /\ pc[s] # "error"
        /\ pc[s] = "custagg" =>
              \A i \in 1..Len(df[s]) :
                  LET a == df[s][i].address IN
                  IF a = MissingText \/ a = <<>>
                  THEN df[s][i].region = Unclassified
                  ELSE /\ df[s][i].region # <<>>
                       /\ \A k \in 1..Len(df[s][i].region) :
                             df[s][i].region[k] # " "
                       /\ \E lead, rest \in 0..Len(a) :
                             /\ lead + Len(df[s][i].region) + rest = Len(a)
                             /\ \A k \in 1..lead : a[k] = " "
                             /\ SubSeq(a, lead + 1, lead + Len(df[s][i].region))
                                   = df[s][i].region
                             /\ rest > 0 =>
                                   a[lead + Len(df[s][i].region) + 1] = " "


----------------------------------------------------------------------------
(* Properties of the enriched table as a whole (SpecOrders) *)

\* the (order number, product code) keys of the rows read from the files
ReadKeys(s) ==
    {<<r.orderNo, r.prodCode>> : r \in Range(Flatten(df_list[s]))}

\* C27: from the deduplication on, through every merge of the body, the
\* table has exactly one row for each (order number, product code) key read
\* from the files: no stage adds or drops a row.
C27_RowsPreserved ==
    \A s \in Sessions :
        pc[s] \in AfterDedup =>
            /\ Len(df[s]) = Cardinality(ReadKeys(s))
            /\ {<<df[s][i].orderNo, df[s][i].prodCode>> : i \in 1..Len(df[s])}
                  = ReadKeys(s)

\* the returned table of several customers, one of them with two lines on
\* the date of the first order
C27_Witness ==
    \E s \in Sessions :
        /\ pc[s] = "return"
        /\ \E i, j, k \in 1..Len(df[s]) :
              /\ i # j
              /\ df[s][i].contact = df[s][j].contact
              /\ df[s][i].orderDate = df[s][j].orderDate
              /\ df[s][k].contact # df[s][i].contact


\* C28: any two rows of the returned table with the same customer contact
\* carry the same customer type, segment, first-purchase month, lifespan,
\* cumulative revenue, churn label and anchor product.
C28_CustomerFieldsConstant ==
    \A s \in Sessions :
        (pc[s] = "return" /\ HasColumn(df[s], "contact")) =>
        \A i, j \in 1..Len(df[s]) :
            LET a == df[s][i]
                b == df[s][j]
            IN  (a.contact = b.contact /\ a.contact # NaN) =>
                    /\ a.custType = b.custType
                    /\ a.segment = b.segment
                    /\ a.firstMonth = b.firstMonth
                    /\ a.lifespan = b.lifespan
                    /\ a.cumRevenue = b.cumRevenue
                    /\ a.churn = b.churn
                    /\ a.firstProduct = b.firstProduct

\* a repeat customer with lines of two orders, months, products and amounts
C28_Witness ==
    \E s \in Sessions :
        /\ pc[s] = "return"
        /\ HasColumn(df[s], "contact")
        /\ \E i, j \in 1..Len(df[s]) :
              /\ df[s][i].contact = df[s][j].contact
              /\ df[s][i].contact # NaN
              /\ df[s][i].orderNo # df[s][j].orderNo
              /\ df[s][i].orderMonth # df[s][j].orderMonth
              /\ df[s][i].name # df[s][j].name
              /\ df[s][i].paid # df[s][j].paid
              /\ df[s][i].lifespan > 0


\* the rows of t with a contact whose order date is the latest of all rows
LatestCustomerRows(t) ==
    {i \in 1..Len(t) :
        t[i].contact # NaN /\ t[i].orderDate # NaT
            /\ \A j \in 1..Len(t) :
                  t[j].orderDate # NaT => t[j].orderDate <= t[i].orderDate}

cohort_counts(t, m, p) ==
    {t[i].contact : i \in {i \in 1..Len(t) :
        t[i].firstMonth = m /\ t[i].elapsed = p}} \ {NaN}

\* the customers of cohort month m
CohortOf(t, m) ==
    {t[i].contact : i \in {i \in 1..Len(t) : t[i].firstMonth = m}} \ {NaN}

\* C30: in the table after the cohort stage every customer has a row with 0
\* elapsed periods; the period-0 group of every cohort month holds all
\* customers of the cohort, and no other period of the cohort holds more
\* distinct customers.
C30_PeriodZeroHoldsCohort ==
    \A s \in Sessions :
        (pc[s] \in AfterCohort /\ HasColumn(df[s], "contact")) =>
        LET t == df[s] IN
        /\ \A i \in 1..Len(t) :
              t[i].contact # NaN =>
                  \E j \in RowsOf(t, t[i].contact) : t[j].elapsed = 0
        /\ \A i, j \in 1..Len(t) :
              t[i].firstMonth # NaT =>
                  /\ cohort_counts(t, t[i].firstMonth, 0)
                        = CohortOf(t, t[i].firstMonth)
                  /\ Cardinality(cohort_counts(t, t[i].firstMonth, t[j].elapsed))
                        <= Cardinality(cohort_counts(t, t[i].firstMonth, 0))

\* a cohort of two customers of whom one orders again in the next month
C30_Witness ==
    \E s \in Sessions :
        /\ pc[s] \in AfterCohort
        /\ HasColumn(df[s], "contact")
        /\ \E i \in 1..Len(df[s]) :
              /\ df[s][i].elapsed = 1
              /\ Cardinality(cohort_counts(df[s], df[s][i].firstMonth, 0)) = 2
              /\ Cardinality(cohort_counts(df[s], df[s][i].firstMonth, 1)) = 1

====
